---- MODULE Spec2Model ----
(***************************************************************************)
(* Model of pkg/tempofb/searchdata_util.go: the mutable search entry, the  *)
(* page builder that batches encoded entries into one flatbuffer, and the  *)
(* zero-copy tag lookup (Get, ContainsTag, FindTag, binarySearch).         *)
(*                                                                         *)
(* Byte strings are sequences of byte values (97 is "a", 65 is "A").       *)
(* The flatbuffer is modelled by its write offset (bytes used so far),     *)
(* the vtables it holds, and the tables written at each offset.            *)
(***************************************************************************)
EXTENDS Integers, Sequences, FiniteSets, TLC

VARIABLES
    data,         \* the SearchEntryMutable the caller is filling
    startArgs,    \* history: non-zero values passed to SetStartTimeUnixNano on data
    endArgs,      \* history: non-zero values passed to SetEndTimeUnixNano on data
    calls,        \* history: calls made on SearchEntryMutable values so far
    passed,       \* history: the index in added of data as AddData last got it, 0 if it did not
    builder,      \* SearchPageBuilder.builder: the flatbuffers.Builder
    allTags,      \* SearchPageBuilder.allTags
    pageEntries,  \* SearchPageBuilder.pageEntries
    added,        \* history: entries passed to AddData since construction or Reset
    prior,        \* history: the number of entries of the page finished before the last Reset
    resets,       \* history: number of Reset calls
    finishes,     \* history: Finish calls since construction or Reset
    last,         \* the last operation and what it returned
    tc,           \* lookup: the tag container being read (tags, index 0..N-1)
    kv,           \* lookup: the caller's reusable KeyValues buffer
    bs            \* lookup: the binary search in progress

vars == <<data, startArgs, endArgs, calls, passed, builder, allTags, pageEntries, added, prior,
          resets, finishes, last, tc, kv, bs>>

entryVars == <<data, startArgs, endArgs, calls, passed>>
pageVars == <<builder, allTags, pageEntries, added, prior, resets, finishes>>
lookupVars == <<tc, kv, bs>>

(***************************************************************************)
(* Bounds of the model.                                                    *)
(***************************************************************************)
MaxEntries == 2     \* AddData calls between two Resets
MaxResets == 1      \* Reset calls in a run
MaxFinishes == 2    \* Finish calls between two Resets
MaxCalls == 3       \* calls on SearchEntryMutable values in a run of the page builder
MaxSetCalls == 6    \* calls on SearchEntryMutable values in a run of the entry alone
MaxKeys == 3        \* tags in a container that is looked up
IntBits == 5        \* width of Go's int in the model (64 in the build)

(***************************************************************************)
(* Byte strings.                                                           *)
(***************************************************************************)
\* bytes.ToLower / strings.ToLower on ASCII
ToLower(s) == [n \in 1..Len(s) |-> IF s[n] >= 65 /\ s[n] <= 90 THEN s[n] + 32 ELSE s[n]]

RECURSIVE CompareFrom(_, _, _)
CompareFrom(a, b, n) ==
    IF n > Len(a) /\ n > Len(b) THEN 0
    ELSE IF n > Len(a) THEN -1
    ELSE IF n > Len(b) THEN 1
    ELSE IF a[n] < b[n] THEN -1
    ELSE IF a[n] > b[n] THEN 1
    ELSE CompareFrom(a, b, n + 1)

\* bytes.Compare: -1, 0 or 1, lexicographic on bytes
Compare(a, b) == CompareFrom(a, b, 1)

\* bytes.Equal
Equal(a, b) == Len(a) = Len(b) /\ \A n \in 1..Len(a) : a[n] = b[n]

\* bytes.Contains: sub is a contiguous subslice of s
Contains(s, sub) ==
    \E n \in 0..(Len(s) - Len(sub)) :
        \A m \in 1..Len(sub) : s[n + m] = sub[m]

Reverse(s) == [n \in 1..Len(s) |-> s[Len(s) + 1 - n]]

(***************************************************************************)
(* SearchDataMap: the tag set. It is kept as the list of its distinct      *)
(* (key, value) pairs in Range order (by key, then by value).              *)
(***************************************************************************)
NewSearchDataMap == << >>

PairLess(p, q) ==
    \/ Compare(p[1], q[1]) = -1
    \/ Compare(p[1], q[1]) = 0 /\ Compare(p[2], q[2]) = -1

HasPair(m, p) == \E n \in 1..Len(m) : Equal(m[n][1], p[1]) /\ Equal(m[n][2], p[2])

InsertPair(m, p) ==
    LET before == SelectSeq(m, LAMBDA q : PairLess(q, p))
        after == SelectSeq(m, LAMBDA q : ~PairLess(q, p))
    IN  before \o <<p>> \o after

\* SearchDataMap.Add: keys are lower-cased before storage; adding a pair
\* that is present is a no-op.
MapAdd(m, k, v) ==
    LET p == <<ToLower(k), v>>
    IN  IF HasPair(m, p) THEN m ELSE InsertPair(m, p)

\* SearchDataMap.Range: every distinct pair, by key and then by value
MapRange(m) == m

RECURSIVE MapAddAll(_, _)
MapAddAll(m, ps) ==
    IF ps = << >> THEN m
    ELSE MapAddAll(MapAdd(m, ps[1][1], ps[1][2]), Tail(ps))

\* a tag vector read from index 0: the keys strictly descending
Descending(s) == \A n \in 1..(Len(s) - 1) : Compare(s[n].key, s[n + 1].key) = 1

\* the (key, value) pairs a tag vector holds
PairsOf(tags) ==
    UNION {{<<tags[n].key, tags[n].value[m]>> : m \in 1..Len(tags[n].value)}
              : n \in 1..Len(tags)}

\* no key twice in the vector, no value twice under a key
NoRepeats(tags) ==
    /\ \A n, m \in 1..Len(tags) : n # m => ~Equal(tags[n].key, tags[m].key)
    /\ \A n \in 1..Len(tags) : \A i, j \in 1..Len(tags[n].value) :
           i # j => ~Equal(tags[n].value[i], tags[n].value[j])

(***************************************************************************)
(* flatbuffers.Builder. off is Builder.Offset(): the bytes used so far,    *)
(* counted from the end of the buffer, where the builder writes downwards. *)
(* An offset returned by the builder names the object that ends there.     *)
(***************************************************************************)
SizeUOffsetT == 4
SizeSOffsetT == 4
SizeVOffsetT == 2
SizeUint64 == 8
VtableMetadataFields == 2

Max(a, b) == IF a >= b THEN a ELSE b

\* flatbuffers.NewBuilder, and the state Builder.Reset leaves
NewBuilder == [off |-> 0, minalign |-> 1, vtables |-> {}, finished |-> FALSE,
               tables |-> << >>]

\* Builder.Prep: pad so that, once additional bytes are written, the write
\* position is aligned to size
Prep(b, size, additional) ==
    [b EXCEPT !.minalign = Max(@, size),
              !.off = @ + ((size - ((@ + additional) % size)) % size)]

\* Builder.CreateByteString / CreateString: zero terminator, the bytes, and
\* the length; the offset of the string is the new b.off
CreateByteString(b, s) ==
    [Prep(b, SizeUOffsetT, Len(s) + 1) EXCEPT !.off = @ + 1 + Len(s) + SizeUOffsetT]

\* StartVector(4, n, 4), n times PrependUOffsetT, EndVector(n); the offset of
\* the vector is the new b.off
WriteOffsetVector(b, n) ==
    [Prep(Prep(b, SizeUOffsetT, SizeUOffsetT * n), SizeUOffsetT, SizeUOffsetT * n)
        EXCEPT !.off = @ + SizeUOffsetT * n + SizeUOffsetT]

\* a vector read from index 0 in the order its elements were prepended
VectorReadInOrder(prepended) == prepended

\* A vector is read from index 0 in the reverse of the order its elements
\* were prepended.
VectorRead(prepended) == Reverse(prepended)

\* Builder.PrependUint64Slot / PrependUOffsetTSlot over the fields of one
\* table: a field that holds its default (0) is not written and keeps slot 0.
\* fields[n] = [slot, size, present]; vt maps slot -> offset of the field.
RECURSIVE PlaceFields(_, _, _)
PlaceFields(b, vt, fields) ==
    IF fields = << >> THEN [b |-> b, vt |-> vt]
    ELSE LET f == Head(fields)
         IN  IF f.present
             THEN LET b1 == [Prep(b, f.size, 0) EXCEPT !.off = @ + f.size]
                  IN  PlaceFields(b1, [vt EXCEPT ![f.slot] = b1.off], Tail(fields))
             ELSE PlaceFields(b, vt, Tail(fields))

RECURSIVE TrimZeroes(_)
TrimZeroes(vt) ==
    IF vt # << >> /\ vt[Len(vt)] = 0 THEN TrimZeroes(SubSeq(vt, 1, Len(vt) - 1))
    ELSE vt

\* Builder.WriteVtable, its end: the vtable is written unless an equal one
\* is in the buffer already; the offset returned for the table is the
\* offset before the vtable is written
WriteVtableEnd(b, vtable) ==
    [b |-> IF vtable \in b.vtables THEN b
           ELSE [b EXCEPT !.off = @ + (Len(vtable) + VtableMetadataFields) * SizeVOffsetT,
                          !.vtables = @ \cup {vtable}],
     offset |-> b.off]

\* Builder.WriteVtable: the offset to the vtable is prepended, objectOffset
\* is b.off then, and the vtable holds objectOffset - (offset of the field)
\* for each field written, its trailing zeroes trimmed
WriteVtableAt(b, vt) ==
    WriteVtableEnd(b, TrimZeroes([n \in DOMAIN vt |-> IF vt[n] = 0 THEN 0 ELSE b.off - vt[n]]))

WriteVtable(placed) ==
    WriteVtableAt([Prep(placed.b, SizeSOffsetT, 0) EXCEPT !.off = @ + SizeSOffsetT], placed.vt)

\* Builder.StartObject .. EndObject: result is the builder and the offset
\* of the table
WriteTable(b, numfields, fields) ==
    WriteVtable(PlaceFields(b, [n \in 1..numfields |-> 0], fields))

\* Builder.Finish(rootTable): the root offset, aligned to minalign
BuilderFinish(b) ==
    [Prep(b, b.minalign, SizeUOffsetT) EXCEPT !.off = @ + SizeUOffsetT,
                                               !.finished = TRUE]

(***************************************************************************)
(* SearchDataMap.WriteToBuilder: the keys in ascending order, each with    *)
(* its values, as one KeyValues table per key, then the vector of tables.  *)
(***************************************************************************)
RECURSIVE KeysOf(_)
KeysOf(m) ==
    IF m = << >> THEN << >>
    ELSE LET rest == KeysOf(Tail(m))
         IN  IF rest # << >> /\ Equal(rest[1], m[1][1]) THEN rest
             ELSE <<m[1][1]>> \o rest

ValuesOf(m, k) ==
    LET ps == SelectSeq(m, LAMBDA p : Equal(p[1], k))
    IN  [n \in 1..Len(ps) |-> ps[n][2]]

RECURSIVE CreateStrings(_, _)
CreateStrings(b, ss) ==
    IF ss = << >> THEN b ELSE CreateStrings(CreateByteString(b, ss[1]), Tail(ss))

\* one key: the key string, the value strings, the value vector, the table
WriteKeyValues(b, k, values) ==
    WriteTable(WriteOffsetVector(CreateStrings(CreateByteString(b, k), values), Len(values)),
               2, <<[slot |-> 1, size |-> SizeUOffsetT, present |-> TRUE],
                    [slot |-> 2, size |-> SizeUOffsetT, present |-> TRUE]>>)

\* a tag as KeyValues reads it back, before the tags written after it
ConsKeyValues(k, values, rest) ==
    [b |-> rest.b, kvs |-> <<[key |-> k, value |-> VectorRead(values)]>> \o rest.kvs]

RECURSIVE WriteAllKeyValues(_, _, _)
WriteNextKeyValues(b, m, keys, values) ==
    ConsKeyValues(keys[1], values,
                  WriteAllKeyValues(WriteKeyValues(b, keys[1], values).b, m, Tail(keys)))

WriteAllKeyValues(b, m, keys) ==
    IF keys = << >> THEN [b |-> b, kvs |-> << >>]
    ELSE WriteNextKeyValues(b, m, keys, ValuesOf(m, keys[1]))

\* the vector of the KeyValues tables, prepended in the order given
TagVectorEnd(b, kvs) == [b |-> b, offset |-> b.off, tags |-> VectorRead(kvs)]

\* the tag vector written with the keys prepended in descending order
TagVectorDescendingFirst(w) == TagVectorEnd(WriteOffsetVector(w.b, Len(w.kvs)), Reverse(w.kvs))

TagVector(w) == TagVectorEnd(WriteOffsetVector(w.b, Len(w.kvs)), w.kvs)

\* result: the builder, the offset of the tag vector, and the vector as it
\* is read from index 0
MapWriteToBuilder(m, b) ==
    TagVector(WriteAllKeyValues(b, m, KeysOf(MapRange(m))))

(***************************************************************************)
(* Inputs.                                                                 *)
(***************************************************************************)
TraceIDs == {<<1>>, <<2, 3>>}
\* ("a","x"), ("a","y"), ("B","x"), ("c","x")
TagInputs == {<<<<97>>, <<120>>>>, <<<<97>>, <<121>>>>, <<<<66>>, <<120>>>>, <<<<99>>, <<120>>>>}
Times == {0, 5}
WideTimes == {0, 3, 5, 9}

(***************************************************************************)
(* SearchEntryMutable.                                                     *)
(***************************************************************************)
NewSearchEntryMutable(id) ==
    [TraceID |-> id, tagsNil |-> TRUE, Tags |-> << >>,
     StartTimeUnixNano |-> 0, EndTimeUnixNano |-> 0]

NewEntry(id) ==
    /\ data' = NewSearchEntryMutable(id)
    /\ startArgs' = {}
    /\ endArgs' = {}
    /\ calls' = calls + 1
    /\ passed' = 0
    /\ last' = [op |-> "NewEntry"]
    /\ UNCHANGED <<pageVars, lookupVars>>

EntryAddTag(s, k, v) ==
    [s EXCEPT !.tagsNil = FALSE, !.Tags = MapAdd(s.Tags, k, v)]

\* AddTag on an entry whose tags the page builder shares since AddData
AddTagShared(k, v) ==
    /\ data' = EntryAddTag(data, k, v)
    /\ calls' = calls + 1
    /\ last' = [op |-> "AddTag"]
    /\ allTags' = IF passed > 0 THEN MapAdd(allTags, k, v) ELSE allTags
    /\ UNCHANGED <<startArgs, endArgs, passed, builder, pageEntries, added, prior,
                   resets, finishes, lookupVars>>

AddTag(k, v) ==
    /\ data' = EntryAddTag(data, k, v)
    /\ calls' = calls + 1
    /\ last' = [op |-> "AddTag"]
    /\ UNCHANGED <<startArgs, endArgs, passed, pageVars, lookupVars>>

\* SetStartTimeUnixNano without its t > 0 test
EntrySetStartAdoptsZero(s, t) ==
    IF s.StartTimeUnixNano = 0 \/ s.StartTimeUnixNano > t
    THEN [s EXCEPT !.StartTimeUnixNano = t]
    ELSE s

EntrySetStart(s, t) ==
    IF t > 0 /\ (s.StartTimeUnixNano = 0 \/ s.StartTimeUnixNano > t)
    THEN [s EXCEPT !.StartTimeUnixNano = t]
    ELSE s

SetStartTimeUnixNano(t) ==
    /\ data' = EntrySetStart(data, t)
    /\ startArgs' = IF t # 0 THEN startArgs \cup {t} ELSE startArgs
    /\ calls' = calls + 1
    /\ last' = [op |-> "SetStartTimeUnixNano", arg |-> t, changed |-> data' # data]
    /\ UNCHANGED <<endArgs, passed, pageVars, lookupVars>>

EntrySetEnd(s, t) ==
    IF t > 0 /\ t > s.EndTimeUnixNano
    THEN [s EXCEPT !.EndTimeUnixNano = t]
    ELSE s

SetEndTimeUnixNano(t) ==
    /\ data' = EntrySetEnd(data, t)
    /\ endArgs' = IF t # 0 THEN endArgs \cup {t} ELSE endArgs
    /\ calls' = calls + 1
    /\ last' = [op |-> "SetEndTimeUnixNano", arg |-> t, changed |-> data' # data]
    /\ UNCHANGED <<startArgs, passed, pageVars, lookupVars>>

\* the SearchEntry table as SearchEntry's accessors read it back
EncodedEntry(s, tags) ==
    [id |-> s.TraceID, start |-> s.StartTimeUnixNano, end |-> s.EndTimeUnixNano,
     tags |-> tags]

\* the SearchEntry table is in the buffer at the offset SearchEntryEnd gave
EntryWritten(s, tags, t) ==
    [s |-> s,
     b |-> [t.b EXCEPT !.tables = (t.offset :> EncodedEntry(s, tags)) @@ @],
     offset |-> t.offset]

\* SearchEntryStart .. SearchEntryEnd, after the id and the tags (w)
EntryWriteTable(s, w) ==
    EntryWritten(s, w.tags,
        WriteTable(w.b, 4,
            <<[slot |-> 1, size |-> SizeUOffsetT, present |-> TRUE],
              [slot |-> 3, size |-> SizeUint64, present |-> s.StartTimeUnixNano # 0],
              [slot |-> 4, size |-> SizeUint64, present |-> s.EndTimeUnixNano # 0],
              [slot |-> 2, size |-> SizeUOffsetT, present |-> TRUE]>>))

\* SearchEntryMutable.WriteToBuilder: result is the entry (its Tags no longer
\* nil), the builder and the offset of the SearchEntry table
EntryWriteToBuilder(s, b) ==
    EntryWriteTable([s EXCEPT !.tagsNil = FALSE],
                    MapWriteToBuilder(s.Tags, CreateByteString(b, s.TraceID)))

(***************************************************************************)
(* SearchPageBuilder.                                                      *)
(***************************************************************************)
\* what a reader finds at an offset where no table was written
NoEntry == [id |-> << >>, start |-> 0, end |-> 0, tags |-> << >>]

EntryAt(b, o) == IF o \in DOMAIN b.tables THEN b.tables[o] ELSE NoEntry

\* history: what the caller handed to AddData
Snapshot(s) ==
    [id |-> s.TraceID, start |-> s.StartTimeUnixNano, end |-> s.EndTimeUnixNano,
     pairs |-> {s.Tags[n] : n \in 1..Len(s.Tags)}]

\* AddData replacing the page-wide tag set by the entry's tags
AddDataTagsOverwrite(all, s) ==
    IF s.tagsNil THEN all ELSE MapAddAll(NewSearchDataMap, MapRange(s.Tags))

\* AddData's merge of the entry's tags into the page-wide tag set
AddDataTags(all, s) ==
    IF s.tagsNil THEN all ELSE MapAddAll(all, MapRange(s.Tags))

\* AddData once the entry is written (w): the offset is recorded and the
\* bytes written are returned
AddDataWritten(oldOffset, w) ==
    /\ allTags' = AddDataTags(allTags, data)
    /\ builder' = w.b
    /\ pageEntries' = Append(pageEntries, w.offset)
    /\ data' = w.s
    /\ added' = Append(added, Snapshot(data))
    /\ passed' = Len(added) + 1
    /\ last' = [op |-> "AddData", ret |-> w.offset - oldOffset,
                grew |-> w.b.off - oldOffset, afterFinish |-> builder.finished]

\* AddData refusing a builder that Finish was called on
AddDataRejectsFinished ==
    /\ Len(added) < MaxEntries
    /\ IF builder.finished
       THEN /\ last' = [op |-> "AddData", ret |-> -1, grew |-> 0, afterFinish |-> TRUE]
            /\ UNCHANGED <<data, passed, allTags, builder, pageEntries, added>>
       ELSE AddDataWritten(builder.off, EntryWriteToBuilder(data, builder))
    /\ UNCHANGED <<startArgs, endArgs, calls, prior, resets, finishes, lookupVars>>

AddData ==
    /\ Len(added) < MaxEntries
    /\ AddDataWritten(builder.off, EntryWriteToBuilder(data, builder))
    /\ UNCHANGED <<startArgs, endArgs, calls, prior, resets, finishes, lookupVars>>

\* the SearchPage as its accessors read it back from the finished bytes
PageFinished(b, entries, tags) ==
    [b |-> BuilderFinish(b),
     page |-> [entries |-> [n \in 1..Len(entries) |-> EntryAt(b, VectorRead(entries)[n])],
               tags |-> tags]]

\* SearchPageStart .. SearchPageEnd, after the entries vector and the tags (w)
PageWriteTable(entries, w) ==
    PageFinished(WriteTable(w.b, 2, <<[slot |-> 1, size |-> SizeUOffsetT, present |-> TRUE],
                                      [slot |-> 2, size |-> SizeUOffsetT, present |-> TRUE]>>).b,
                 entries, w.tags)

\* Finish: the entries vector, the page-wide tags, the page table
PageFinish(b, entries, tags) ==
    PageWriteTable(entries, MapWriteToBuilder(tags, WriteOffsetVector(b, Len(entries))))

FinishReturns(f) ==
    /\ builder' = f.b
    /\ last' = [op |-> "Finish", ret |-> f.page, afterFinish |-> builder.finished]

Finish ==
    /\ finishes < MaxFinishes
    /\ FinishReturns(PageFinish(builder, pageEntries, allTags))
    /\ finishes' = finishes + 1
    /\ UNCHANGED <<entryVars, allTags, pageEntries, added, prior, resets, lookupVars>>

\* Reset without pageEntries = pageEntries[:0]
ResetKeepsEntries ==
    /\ resets < MaxResets
    /\ builder' = NewBuilder
    /\ allTags' = NewSearchDataMap
    /\ added' = << >>
    /\ prior' = IF finishes > 0 THEN Len(added) ELSE 0
    /\ finishes' = 0
    /\ resets' = resets + 1
    /\ passed' = 0
    /\ last' = [op |-> "Reset"]
    /\ UNCHANGED <<data, startArgs, endArgs, calls, pageEntries, lookupVars>>

Reset ==
    /\ resets < MaxResets
    /\ builder' = NewBuilder
    /\ pageEntries' = << >>
    /\ allTags' = NewSearchDataMap
    /\ added' = << >>
    /\ prior' = IF finishes > 0 THEN Len(added) ELSE 0
    /\ finishes' = 0
    /\ resets' = resets + 1
    /\ passed' = 0
    /\ last' = [op |-> "Reset"]
    /\ UNCHANGED <<data, startArgs, endArgs, calls, lookupVars>>

(***************************************************************************)
(* Tag lookup over an FBTagContainer: tc[n + 1] is what Tags(obj, n)       *)
(* decodes into obj, Len(tc) is TagsLength().                              *)
(***************************************************************************)
\* &KeyValues{}: a buffer nothing was decoded into
NewKeyValues == [key |-> << >>, value |-> << >>]

\* the state of one binarySearch call: i, j and the last h of its loop, and
\* as history the comparator's last result c, the i and j that probe started
\* from (lo, hi) and the number of comparator calls (probes)
NoSearch == [pc |-> "idle", k |-> << >>, n |-> 0, i |-> 0, j |-> 0, h |-> -1,
             c |-> 0, lo |-> 0, hi |-> 0, probes |-> 0, ret |-> -1]

\* the largest int
MaxInt == 2 ^ (IntBits - 1) - 1

\* h computed as int(i+j) >> 1: the sum wraps to a negative int
BinarySearchProbeSigned(st) ==
    LET sum == (st.i + st.j) % (2 ^ IntBits)
    IN  (IF sum > MaxInt THEN sum - 2 ^ IntBits ELSE sum) \div 2

\* h := int(uint(i+j) >> 1): the sum of two ints wraps at the width of int,
\* read as unsigned it is the sum again, and half of it is an int
BinarySearchProbe(st) == ((st.i + st.j) % (2 ^ IntBits)) \div 2

\* what one probe of index h with comparator result c records
Probed(st, h, c) ==
    [st EXCEPT !.h = h, !.c = c, !.lo = st.i, !.hi = st.j, !.probes = @ + 1]

\* the switch on compare(h), p.h being the index probed
Switch(p, c) ==
    IF c = 0 THEN [p EXCEPT !.pc = "done", !.ret = p.h]
    ELSE IF c = -1 THEN [p EXCEPT !.j = p.h]
    ELSE [p EXCEPT !.i = p.h + 1]

\* one iteration of binarySearch's loop, or its return once i >= j;
\* c is compare(h) for the h of this iteration
BinarySearchNext(st, c) ==
    IF ~(st.i < st.j) THEN [st EXCEPT !.pc = "done", !.ret = -1]
    ELSE Switch(Probed(st, BinarySearchProbe(st), c), c)

\* Tags that leaves obj as it was
TagsNoDecode(s, obj, n) == obj

\* FBTagContainer.Tags(obj, n): decodes tag n into obj; the result is obj
Tags(s, obj, n) == s[n + 1]

\* a comparator for an ascending vector: never -1 on a smaller stored key
FindTagCompareAscending(obj, k) == IF Compare(obj.key, k) = 0 THEN 0 ELSE 1

\* the comparator with its operands swapped: k against the stored key
FindTagCompareSwapped(obj, k) == Compare(k, obj.key)

\* the comparator FindTag hands to binarySearch, once Tags(kv, h) has
\* decoded into kv: the stored key against k
FindTagCompare(obj, k) == Compare(obj.key, k)

\* FindTag's search run to its end: every probe decodes Tags(kv, h) into buf
RECURSIVE FindTagRun(_, _, _)
FindTagRun(s, st, buf) ==
    IF st.pc = "done" THEN [st |-> st, kv |-> buf]
    ELSE IF st.i < st.j
         THEN LET h == BinarySearchProbe(st)
                  obj == Tags(s, buf, h)
              IN  FindTagRun(s, BinarySearchNext(st, FindTagCompare(obj, st.k)), obj)
         ELSE FindTagRun(s, BinarySearchNext(st, 0), buf)

SearchFor(s, k) == [NoSearch EXCEPT !.pc = "loop", !.k = k, !.n = Len(s), !.j = Len(s)]

\* FindTag: found is "kv is returned" (not nil); kv is the caller's buffer
\* after the call
FindTag(s, buf, k) ==
    LET r == FindTagRun(s, SearchFor(s, k), buf)
    IN  [found |-> r.st.ret >= 0, idx |-> r.st.ret, kv |-> r.kv, probes |-> r.st.probes]

\* ContainsTag looking at value 0 only
ContainsTagFirstValue(s, buf, k, v) ==
    LET r == FindTag(s, buf, k)
    IN  [ret |-> r.found /\ Contains(r.kv.value[1], v), kv |-> r.kv]

\* ContainsTag
ContainsTag(s, buf, k, v) ==
    LET r == FindTag(s, buf, k)
    IN  [ret |-> r.found /\ \E n \in 1..Len(r.kv.value) : Contains(r.kv.value[n], v),
         kv |-> r.kv]

\* Get that looks at the tag of index n - 1 alone
GetFromOneTag(s, kb, n) ==
    IF n <= Len(s) /\ Equal(s[n].key, kb) THEN s[n].value[1] ELSE << >>

\* SearchEntry.Get: a linear scan from index 0 for the lower-cased key
RECURSIVE GetFrom(_, _, _)
GetFrom(s, kb, n) ==
    IF n > Len(s) THEN << >>
    ELSE IF Equal(s[n].key, kb) THEN s[n].value[1]
    ELSE GetFrom(s, kb, n + 1)

\* the number of s.Tags(kv, i) calls of Get's loop
RECURSIVE GetDecodes(_, _, _)
GetDecodes(s, kb, n) ==
    IF n > Len(s) THEN Len(s)
    ELSE IF Equal(s[n].key, kb) THEN n
    ELSE GetDecodes(s, kb, n + 1)

\* Get without bytes.ToLower
EntryGetExactCase(s, k) == GetFrom(s, k, 1)

EntryGet(s, k) == GetFrom(s, ToLower(k), 1)

Get(k) ==
    /\ bs.pc # "loop"
    /\ last' = [op |-> "Get", k |-> k, ret |-> EntryGet(tc, k),
                decodes |-> GetDecodes(tc, ToLower(k), 1)]
    /\ UNCHANGED <<entryVars, pageVars, lookupVars>>

\* SearchEntry.Contains(k, v, buffer) with the caller's buffer kv
ContainsOp(k, v) ==
    /\ bs.pc # "loop"
    /\ LET r == ContainsTag(tc, kv, k, v)
       IN  /\ kv' = r.kv
           /\ last' = [op |-> "Contains", k |-> k, v |-> v, ret |-> r.ret]
    /\ UNCHANGED <<entryVars, pageVars, tc, bs>>

\* FindTag, step by step: the call, each iteration of binarySearch, the return
FindTagCall(k) ==
    /\ bs.pc # "loop"
    /\ bs' = SearchFor(tc, k)
    /\ last' = [op |-> "FindTagCall", k |-> k]
    /\ UNCHANGED <<entryVars, pageVars, tc, kv>>

FindTagStep ==
    /\ bs.pc = "loop"
    /\ IF bs.i < bs.j
       THEN LET h == BinarySearchProbe(bs)
                obj == Tags(tc, kv, h)
            IN  /\ kv' = obj
                /\ bs' = BinarySearchNext(bs, FindTagCompare(obj, bs.k))
       ELSE /\ kv' = kv
            /\ bs' = BinarySearchNext(bs, 0)
    /\ last' = IF bs'.pc = "done"
               THEN [op |-> "FindTag", k |-> bs.k, found |-> bs'.ret >= 0, idx |-> bs'.ret]
               ELSE [op |-> "FindTagStep", k |-> bs.k]
    /\ UNCHANGED <<entryVars, pageVars, tc>>

\* binarySearch(n, compare) under any comparator, step by step: the call,
\* then each iteration of the loop with compare(h) = c, the last one returning
BinarySearchCall(n) ==
    /\ bs.pc # "loop"
    /\ bs' = [NoSearch EXCEPT !.pc = "loop", !.n = n, !.j = n]
    /\ last' = [op |-> "binarySearchCall", n |-> n]
    /\ UNCHANGED <<entryVars, pageVars, tc, kv>>

BinarySearchStep(c) ==
    /\ bs.pc = "loop"
    /\ bs' = BinarySearchNext(bs, c)
    /\ last' = [op |-> IF bs'.pc = "done" THEN "binarySearch" ELSE "binarySearchStep"]
    /\ UNCHANGED <<entryVars, pageVars, tc, kv>>

\* a caller takes a fresh buffer
NewBuffer ==
    /\ bs.pc # "loop"
    /\ kv # NewKeyValues
    /\ kv' = NewKeyValues
    /\ last' = [op |-> "NewBuffer"]
    /\ UNCHANGED <<entryVars, pageVars, tc, bs>>

(***************************************************************************)
(* Containers that are looked up: the keys distinct and in descending      *)
(* order from index 0, each with one value or more.                        *)
(***************************************************************************)
StoredKeys == {<<66>>, <<97>>, <<97, 98>>, <<98>>, <<99>>}   \* "B", "a", "ab", "b", "c"
SearchKeys == StoredKeys \cup {<<65>>, <<122>>, << >>}    \* and "A", "z", ""
ValueLists == {<< <<1, 2, 3>> >>, << <<3>>, <<2, 1>> >>}
Fragments == {<<1, 2>>, <<2, 1>>, <<1, 2, 3, 4>>, << >>}

Containers ==
    UNION {{s \in [1..n -> [key : StoredKeys, value : ValueLists]] : Descending(s)}
              : n \in 0..MaxKeys}

NoLookup ==
    /\ tc = << >>
    /\ kv = NewKeyValues
    /\ bs = NoSearch

(***************************************************************************)
(* The page builder and the entry it is fed.                               *)
(***************************************************************************)
Init ==
    /\ data \in {NewSearchEntryMutable(id) : id \in TraceIDs}
    /\ startArgs = {}
    /\ endArgs = {}
    /\ calls = 0
    /\ passed = 0
    /\ builder = NewBuilder
    /\ allTags = NewSearchDataMap
    /\ pageEntries = << >>
    /\ added = << >>
    /\ prior = 0
    /\ resets = 0
    /\ finishes = 0
    /\ last = [op |-> "init"]
    /\ NoLookup

Next ==
    \/ calls < MaxCalls /\ \E id \in TraceIDs : NewEntry(id)
    \/ calls < MaxCalls /\ \E p \in TagInputs : AddTag(p[1], p[2])
    \/ calls < MaxCalls /\ \E t \in Times : SetStartTimeUnixNano(t)
    \/ calls < MaxCalls /\ \E t \in Times : SetEndTimeUnixNano(t)
    \/ AddData
    \/ Finish
    \/ Reset

Spec == Init /\ [][Next]_vars

(***************************************************************************)
(* Properties of the page builder.                                         *)
(***************************************************************************)
\* an encoded entry as the caller handed it to AddData
EntryView(e) == [id |-> e.id, start |-> e.start, end |-> e.end, pairs |-> PairsOf(e.tags)]

Count(s, x) == Cardinality({n \in 1..Len(s) : s[n] = x})

\* the entries read from a page are the entries of adds, each as often
SameEntries(entries, adds) ==
    LET views == [n \in 1..Len(entries) |-> EntryView(entries[n])]
    IN  /\ Len(views) = Len(adds)
        /\ \A n \in 1..Len(adds) : Count(views, adds[n]) = Count(adds, adds[n])

AddedPairs == UNION {added[n].pairs : n \in 1..Len(added)}

\* C1: a page finished after a Reset holds exactly the entries added since
\* that Reset, and its tag list is exactly the union of their tags.
C1_ReuseSafety ==
    (last.op = "Finish" /\ resets > 0) =>
        /\ SameEntries(last.ret.entries, added)
        /\ PairsOf(last.ret.tags) = AddedPairs

\* a page of two entries was finished, then Reset, one entry added, Finish
C1_Witness ==
    /\ last.op = "Finish"
    /\ resets = 1
    /\ prior = 2
    /\ Len(added) = 1
    /\ Len(last.ret.entries) = 1

\* C2: the page-wide tag set is the union of the pairs of every entry added
\* since construction or the last Reset, each distinct pair held once, and
\* Finish writes exactly that set as the page's tag list.
C2_PageTags ==
    /\ {allTags[n] : n \in 1..Len(allTags)} = AddedPairs
    /\ \A n, m \in 1..Len(allTags) : n # m => allTags[n] # allTags[m]
    /\ last.op = "Finish" =>
          /\ PairsOf(last.ret.tags) = AddedPairs
          /\ NoRepeats(last.ret.tags)

\* entries {a:x} and {a:y}: the page lists key a once, with both values
C2_Witness ==
    /\ last.op = "Finish"
    /\ Len(added) = 2
    /\ added[1].pairs = {<<<<97>>, <<120>>>>}
    /\ added[2].pairs = {<<<<97>>, <<121>>>>}
    /\ Len(last.ret.tags) = 1
    /\ PairsOf(last.ret.tags) = {<<<<97>>, <<120>>>>, <<<<97>>, <<121>>>>}

\* C7: AddData returns the number of bytes the buffer grew by during the
\* call: the builder's offset after the call minus its offset before.
C7_ReturnsGrowth ==
    last.op = "AddData" => last.ret = last.grew

\* C8 as claimed: AddData, or a second Finish, after Finish without a Reset
\* is never accepted.
C8_MisuseDetected ==
    ~(last.op \in {"AddData", "Finish"} /\ last.afterFinish)

\* C8 as amended: AddData, or a second Finish, after Finish without a Reset
\* is accepted like any other call: AddData records the entry and returns
\* its byte count, Finish returns a page of every entry added since the
\* last Reset.
C8_MisuseAccepted ==
    /\ (last.op = "AddData" /\ last.afterFinish) =>
          /\ last.ret > 0
          /\ Len(pageEntries) = Len(added)
          /\ EntryView(EntryAt(builder, pageEntries[Len(pageEntries)])) = added[Len(added)]
    /\ (last.op = "Finish" /\ last.afterFinish) =>
          SameEntries(last.ret.entries, added)

\* Finish, AddData, Finish without a Reset: the second page has the entry
C8_Witness ==
    /\ last.op = "Finish"
    /\ last.afterFinish
    /\ finishes = 2
    /\ Len(added) = 1
    /\ Len(last.ret.entries) = 1

\* C10: the tag vector of every entry written and of every page finished,
\* read from index 0, is in strictly descending order of the stored key.
C10_DescendingKeys ==
    /\ \A o \in DOMAIN builder.tables : Descending(builder.tables[o].tags)
    /\ last.op = "Finish" =>
          /\ Descending(last.ret.tags)
          /\ \A n \in 1..Len(last.ret.entries) : Descending(last.ret.entries[n].tags)

\* tags a, B, c on one entry: key c at index 0, b at 1, a at 2, in the
\* entry and in the page
C10_Witness ==
    /\ last.op = "Finish"
    /\ Len(last.ret.entries) = 1
    /\ Len(last.ret.tags) = 3
    /\ Len(last.ret.entries[1].tags) = 3
    /\ [n \in 1..3 |-> last.ret.tags[n].key] = <<<<99>>, <<98>>, <<97>>>>
    /\ [n \in 1..3 |-> last.ret.entries[1].tags[n].key] = <<<<99>>, <<98>>, <<97>>>>

(***************************************************************************)
(* The entry alone: its time range under any calls of the two setters.     *)
(***************************************************************************)
NextEntry ==
    \/ calls < MaxSetCalls /\ \E id \in TraceIDs : NewEntry(id)
    \/ calls < MaxSetCalls /\ \E t \in WideTimes : SetStartTimeUnixNano(t)
    \/ calls < MaxSetCalls /\ \E t \in WideTimes : SetEndTimeUnixNano(t)

SpecEntry == Init /\ [][NextEntry]_vars

SetMin(S) == CHOOSE x \in S : \A y \in S : x <= y
SetMax(S) == CHOOSE x \in S : \A y \in S : x >= y

\* C3: StartTimeUnixNano is the minimum of the non-zero values passed to
\* SetStartTimeUnixNano since the entry was created (0 if none was passed),
\* EndTimeUnixNano the maximum of the non-zero values passed to
\* SetEndTimeUnixNano (0 if none), and a call with argument 0 changes nothing.
C3_TimeRange ==
    /\ data.StartTimeUnixNano = IF startArgs = {} THEN 0 ELSE SetMin(startArgs)
    /\ data.EndTimeUnixNano = IF endArgs = {} THEN 0 ELSE SetMax(endArgs)
    /\ (last.op \in {"SetStartTimeUnixNano", "SetEndTimeUnixNano"} /\ last.arg = 0)
          => ~last.changed

\* start calls 5, 3, 9 and end calls 5, 9 were made, then a call with 0
C3_Witness ==
    /\ startArgs = {3, 5, 9}
    /\ data.StartTimeUnixNano = 3
    /\ endArgs = {5, 9}
    /\ data.EndTimeUnixNano = 9
    /\ last.op = "SetStartTimeUnixNano"
    /\ last.arg = 0

(***************************************************************************)
(* Lookups over one encoded tag container.                                 *)
(***************************************************************************)
InitLookup ==
    /\ data = NewSearchEntryMutable(<<1>>)
    /\ startArgs = {}
    /\ endArgs = {}
    /\ calls = 0
    /\ passed = 0
    /\ builder = NewBuilder
    /\ allTags = NewSearchDataMap
    /\ pageEntries = << >>
    /\ added = << >>
    /\ prior = 0
    /\ resets = 0
    /\ finishes = 0
    /\ last = [op |-> "init"]
    /\ tc \in Containers
    /\ kv = NewKeyValues
    /\ bs = NoSearch

NextLookup ==
    \/ \E k \in SearchKeys : Get(k)
    \/ \E k \in SearchKeys, v \in Fragments : ContainsOp(k, v)
    \/ \E k \in SearchKeys : FindTagCall(k)
    \/ FindTagStep
    \/ NewBuffer

SpecLookup == InitLookup /\ [][NextLookup]_vars

(***************************************************************************)
(* Properties of the lookups.                                              *)
(***************************************************************************)
\* the indices (from 1) of the tags of tc whose stored key is k
Holding(k) == {n \in 1..Len(tc) : Equal(tc[n].key, k)}

LowerCased == \A n \in 1..Len(tc) : tc[n].key = ToLower(tc[n].key)

\* C4: with the stored keys lower-cased, Get(k) is value 0 of the tag whose
\* key is the lower-cased k, whatever the case of k, and empty if no tag
\* has that key.
C4_Get ==
    (last.op = "Get" /\ LowerCased) =>
        IF Holding(ToLower(last.k)) = {} THEN last.ret = << >>
        ELSE \A n \in Holding(ToLower(last.k)) : last.ret = tc[n].value[1]

\* Get("A") on an entry with key "a" returns the first value of "a"
C4_Witness ==
    /\ last.op = "Get"
    /\ LowerCased
    /\ last.k = <<65>>
    /\ \E n \in 1..Len(tc) : tc[n].key = <<97>> /\ last.ret = tc[n].value[1]

\* C5: ContainsTag(k, v) is true exactly when a tag has the key k, byte for
\* byte, and one of its values has v as a contiguous part.
C5_Contains ==
    last.op = "Contains" =>
        (last.ret <=> \E n \in Holding(last.k) :
                         \E m \in 1..Len(tc[n].value) : Contains(tc[n].value[m], last.v))

\* a tag whose second value alone contains the fragment
C5_Witness ==
    /\ last.op = "Contains"
    /\ last.ret
    /\ last.v = <<2, 1>>
    /\ \E n \in Holding(last.k) : tc[n].value = << <<3>>, <<2, 1>> >>

C9_NoBogusKey ==
    (last.op = "FindTag" /\ ~last.found /\ Len(tc) > 0) =>
        (kv = NewKeyValues \/ Equal(kv.key, last.k))

\* C9 as amended: a search of a non-empty container for an absent key
\* returns not-found and leaves the caller's buffer decoded to the last tag
\* the binary search probed, whose key is not the searched one; ContainsTag
\* returns false for an absent key.
C9_LastProbeInBuffer ==
    /\ (last.op = "FindTag" /\ ~last.found /\ Len(tc) > 0) =>
          /\ kv = tc[bs.h + 1]
          /\ ~Equal(kv.key, last.k)
    /\ (last.op = "Contains" /\ Holding(last.k) = {}) =>
          /\ ~last.ret
          /\ Len(tc) > 0 => /\ \E n \in 1..Len(tc) : kv = tc[n]
                            /\ ~Equal(kv.key, last.k)

\* keys c, b, a: the search for z is not found and leaves key c in the buffer
C9_Witness ==
    /\ last.op = "FindTag"
    /\ ~last.found
    /\ [n \in 1..Len(tc) |-> tc[n].key] = <<<<99>>, <<98>>, <<97>>>>
    /\ last.k = <<122>>
    /\ kv = tc[1]

\* C11 as claimed: at every probed index the comparator FindTag passes to
\* binarySearch returns compare(target key, stored key).
C11_TargetAgainstStored ==
    bs.probes > 0 => bs.c = Compare(bs.k, tc[bs.h + 1].key)

\* C11 as amended: at every probed index the comparator returns
\* compare(stored key, target key): -1 when the stored key is smaller than
\* the target, which sends the search towards index 0, where the larger
\* keys are, and 1 when the stored key is larger.
C11_StoredAgainstTarget ==
    bs.probes > 0 =>
        /\ bs.c = Compare(tc[bs.h + 1].key, bs.k)
        /\ (bs.c = -1 /\ bs.pc = "loop") => bs.j = bs.h /\ bs.i = bs.lo
        /\ (bs.c = 1 /\ bs.pc = "loop") => bs.i = bs.h + 1 /\ bs.j = bs.hi

\* keys c, b, a and the search for c: the probe of b at index 1 returns -1
\* and the search goes on in [0, 1)
C11_Witness ==
    /\ [n \in 1..Len(tc) |-> tc[n].key] = <<<<99>>, <<98>>, <<97>>>>
    /\ bs.pc = "loop"
    /\ bs.k = <<99>>
    /\ bs.probes = 1
    /\ bs.h = 1
    /\ bs.c = -1
    /\ bs.j = 1

\* what FindTag with the lower-cased key of the last Get finds, from a
\* fresh buffer
FoundByFindTag == FindTag(tc, NewKeyValues, ToLower(last.k))

\* C12 as claimed: Get locates the key with the binary search: it decodes
\* the tags binarySearch probes and returns value 0 of the tag FindTag
\* finds for the lower-cased k, the empty string when it finds none.
C12_GetBinarySearch ==
    (last.op = "Get" /\ LowerCased) =>
        /\ last.ret = IF FoundByFindTag.found THEN FoundByFindTag.kv.value[1] ELSE << >>
        /\ last.decodes = FoundByFindTag.probes

\* C12 as amended: Get scans the tags from index 0, decoding every tag up
\* to the match or all of them on a miss, not the tags a binary search
\* probes; with the keys distinct, lower-cased and descending its result is
\* value 0 of the tag FindTag finds for the lower-cased k, the empty string
\* when FindTag finds none.
C12_GetLinearScan ==
    (last.op = "Get" /\ LowerCased) =>
        /\ last.ret = IF FoundByFindTag.found THEN FoundByFindTag.kv.value[1] ELSE << >>
        /\ last.decodes = IF FoundByFindTag.found THEN FoundByFindTag.idx + 1 ELSE Len(tc)

\* keys c, b, a: Get("A") decodes all three tags, the binary search two
C12_Witness ==
    /\ last.op = "Get"
    /\ [n \in 1..Len(tc) |-> tc[n].key] = <<<<99>>, <<98>>, <<97>>>>
    /\ last.k = <<65>>
    /\ last.ret = tc[3].value[1]
    /\ last.decodes = 3
    /\ FoundByFindTag.idx = 2
    /\ FoundByFindTag.probes = 2

(***************************************************************************)
(* binarySearch alone, over every n an int holds and every comparator that *)
(* returns -1, 0 or 1.                                                     *)
(***************************************************************************)
CompareResults == {-1, 0, 1}

NextSearch ==
    \/ \E n \in 0..MaxInt : BinarySearchCall(n)
    \/ \E c \in CompareResults : BinarySearchStep(c)

SpecSearch == Init /\ [][NextSearch]_vars

RECURSIVE FloorLog2(_)
FloorLog2(n) == IF n <= 1 THEN 0 ELSE 1 + FloorLog2(n \div 2)

C14_ReverseOrder ==
    last.op = "Finish" =>
        /\ Len(last.ret.entries) = Len(added)
        /\ \A i \in 0..(Len(added) - 1) :
              EntryView(last.ret.entries[i + 1]) = added[Len(added) - i]

\* entry <<1>> added first, entry <<2, 3>> second: the page lists <<2, 3>>
\* at index 0 and <<1>> at index 1
C14_Witness ==
    /\ last.op = "Finish"
    /\ Len(added) = 2
    /\ added[1].id = <<1>>
    /\ added[2].id = <<2, 3>>
    /\ Len(last.ret.entries) = 2
    /\ last.ret.entries[1].id = <<2, 3>>
    /\ last.ret.entries[2].id = <<1>>

\* C15: once an entry was passed to AddData, the entry encoded in the page
\* and the page-wide tag set are those of the moment of that call, whatever
\* AddTag, SetStartTimeUnixNano or SetEndTimeUnixNano did to the entry
\* since, and so is the page Finish returns.
C15_Snapshot ==
    passed > 0 =>
        /\ passed <= Len(pageEntries)
        /\ EntryView(EntryAt(builder, pageEntries[passed])) = added[passed]
        /\ {allTags[n] : n \in 1..Len(allTags)} = AddedPairs
        /\ last.op = "Finish" =>
              /\ Len(last.ret.entries) = Len(added)
              /\ EntryView(last.ret.entries[Len(added) - passed + 1]) = added[passed]
              /\ PairsOf(last.ret.tags) = AddedPairs

\* an entry without tags or times is added, then gets a tag and both
\* times: the page finished afterwards has it without tags and times
C15_Witness ==
    /\ last.op = "Finish"
    /\ passed = 1
    /\ Len(added) = 1
    /\ added[1] = [id |-> data.TraceID, start |-> 0, end |-> 0, pairs |-> {}]
    /\ Len(data.Tags) = 1
    /\ data.StartTimeUnixNano = 5
    /\ data.EndTimeUnixNano = 5
    /\ Len(last.ret.entries) = 1
    /\ EntryView(last.ret.entries[1]) = added[1]
    /\ last.ret.tags = << >>

====
